---- MODULE Spec2Model ----
(***************************************************************************)
(* A model of the peer runtime of p2psimpy (src/p2psimpy/peer.py): the     *)
(* bilateral connection set, the disconnect callbacks, the fan-out         *)
(* primitives send / gossip / broadcast, service registration and message  *)
(* dispatch.  Execution is single threaded and cooperative, so every call  *)
(* of a Peer method is one atomic action.  What a call did (Connections    *)
(* constructed, callbacks fired, messages handed to a Connection, handlers *)
(* invoked, the error raised) is recorded in the variable last.            *)
(***************************************************************************)
EXTENDS Integers, Sequences, FiniteSets, TLC

\* The peers of the simulation (Peer.name).
Peers == {"A", "B", "C"}

\* The callables that a service may append to Peer.disconnect_callbacks.
Callbacks == {"cb1", "cb2"}

\* Bound: the number of callbacks registered in the whole simulation.
MaxCallbacks == 2

\* Bound: the largest fanout passed to gossip.
MaxFanout == 2

\* type(msg): two subclasses of BaseMessage, and a value that is no BaseMessage.
MessageTypes == {"Hello", "GossipMessage"}
ForeignTypes == {"object"}

\* A message: its concrete type and its sender attribute.
Messages == [type : MessageTypes \cup ForeignTypes, sender : Peers]

\* The messages the services hand to send, gossip and broadcast.
Outgoing == {m \in Messages : m.type \in MessageTypes}

NoMessage == [type |-> "none", sender |-> "none"]

\* The services given to add_service. name is type(service).__name__,
\* messages is service.messages, handler and runner tell whether the service
\* is a BaseHandler and a BaseRunner. Gossip1 and Gossip2 are two objects of
\* one class.
Gossip1 == [id |-> "Gossip1", name |-> "Gossip", messages |-> {"GossipMessage"},
            handler |-> TRUE, runner |-> TRUE]
Gossip2 == [id |-> "Gossip2", name |-> "Gossip", messages |-> {"GossipMessage"},
            handler |-> TRUE, runner |-> TRUE]
Connector1 == [id |-> "Connector1", name |-> "Connector",
               messages |-> {"Hello", "GossipMessage"},
               handler |-> TRUE, runner |-> FALSE]
Ticker1 == [id |-> "Ticker1", name |-> "Ticker", messages |-> {},
            handler |-> FALSE, runner |-> TRUE]
Services == {Gossip1, Gossip2, Connector1, Ticker1}

\* Bound: the number of add_service calls in the whole simulation.
MaxServices == 3

\* Bound: the number of messages the Connections deliver in the whole
\* simulation.
MaxDeliveries == 2

\* The peer types the simulation creates, next to 'bootstrap'.
PeerTypes == {"basic", "client"}

\* The services the peer factory wires into a peer of each type.
TypeServices ==
    [bootstrap |-> <<Gossip1>>, basic |-> <<Gossip1, Ticker1>>,
     client |-> <<Ticker1>>]

\* Bound: the number of calls made on the Simulation object.
MaxCalls == 3

\* Bound: the largest number of peers one call is asked to create.
MaxBatch == 3

\* The names under which add_storage and store are called.
StorageNames == {"msg_data", "known_peers"}

\* except_set of gossip: a set of peers, or None (the default).
None == [isNone |-> TRUE, peers |-> {}]
ExceptSets == {None} \cup {[isNone |-> FALSE, peers |-> S] : S \in SUBSET Peers}

VARIABLES
    connections,            \* Peer.connections: peer -> (other peer -> Connection)
    disconnect_callbacks,   \* Peer.disconnect_callbacks: peer -> list of callbacks
    handlers,               \* Peer.handlers: peer -> (service name -> service)
    mh_map,                 \* Peer.mh_map: peer -> (message type -> set of service names)
    runners,                \* Peer.runners: peer -> list of <<service name, service>>
    msg_queue,              \* Peer.msg_queue: peer -> FIFO of messages
    running,                \* whether the process Peer.run of the peer is alive
    storage,                \* Peer.storage: peer -> the names that hold a storage
    added,                  \* peer -> the services given to add_service, in order
    put_log,                \* peer -> the messages put into its msg_queue, in order
    got_log,                \* peer -> the messages its run loop passed to receive,
                            \*         in order, each with the error receive raised
    sim,                    \* the Simulation object and the peers it created
    last                    \* the most recent call and what it did

vars == <<connections, disconnect_callbacks, handlers, mh_map, runners,
          msg_queue, running, storage, added, put_log, got_log, sim, last>>

serviceVars == <<handlers, mh_map, runners, added>>

queueVars == <<msg_queue, running, put_log, got_log>>

dispatchVars == <<serviceVars, queueVars, storage, sim>>

----------------------------------------------------------------------------
\* Finite maps (Python dict) as functions.

EmptyMap == [x \in {} |-> {}]

MapSet(m, k, v) == [x \in (DOMAIN m) \cup {k} |-> IF x = k THEN v ELSE m[x]]

MapDel(m, k) == [x \in (DOMAIN m) \ {k} |-> m[x]]

\* Every sequence that lists each element of S exactly once.
RECURSIVE Orders(_)
Orders(S) ==
    IF S = {} THEN {<<>>}
    ELSE UNION {{<<x>> \o t : t \in Orders(S \ {x})} : x \in S}

\* random.sample(population, k): every sequence of k distinct elements.
Sample(population, k) ==
    UNION {Orders(T) : T \in {U \in SUBSET population : Cardinality(U) = k}}

Min(a, b) == IF a <= b THEN a ELSE b

Range(s) == {s[i] : i \in 1..Len(s)}

\* The number of places of the sequence s that hold x.
Count(s, x) == Cardinality({i \in 1..Len(s) : s[i] = x})

----------------------------------------------------------------------------
\* network.Connection(sender, receiver): the object is its two ends.
Connection(sender, receiver) == [sender |-> sender, receiver |-> receiver]

\* What one call does: st.connections is the connection maps as the call
\* goes on, the other fields are the events of the call in order.
\*   created  Connections constructed
\*   fired    disconnect callbacks invoked, with their arguments and whether
\*            either side still listed the other at that moment
\*   sent     messages handed to Connection.send
\*   handled  handle_message invocations
\*   logs     the levels of the records written on self.logger
\*   error    the exception that left the call, or "none"
Begin(conns) ==
    [connections |-> conns, created |-> <<>>, fired |-> <<>>, sent |-> <<>>,
     handled |-> <<>>, logs |-> <<>>, error |-> "none"]

\* self.logger.info / warning / error
Log(st, level) == [st EXCEPT !.logs = Append(@, level)]

\* Connection.send(msg, connect): takes the message for later delivery.
ConnectionSend(st, cnx, msg, connect) ==
    [st EXCEPT !.sent = Append(@, [cnx |-> cnx, msg |-> msg, connect |-> connect])]

\* Peer.is_connected
is_connected(conns, self, other) == other \in DOMAIN conns[self]

\* bootstrap_connect that keeps the Connection in self.connections.
bootstrap_connect_keeping(st, self, other) ==
    LET cnx == Connection(self, other)
        s1 == [st EXCEPT !.connections[self] = MapSet(@, other, cnx),
                         !.created = Append(@, cnx)]
    IN  ConnectionSend(s1, cnx, [type |-> "Hello", sender |-> self], TRUE)

\* Peer.bootstrap_connect
bootstrap_connect(st, self, other) ==
    LET cnx == Connection(self, other)
        s1 == [st EXCEPT !.created = Append(@, cnx)]
    IN  ConnectionSend(s1, cnx, [type |-> "Hello", sender |-> self], TRUE)

RECURSIVE connect(_, _, _)

\* connect without the call other.connect(self).
connect_one_sided(st, self, other) ==
    IF ~ is_connected(st.connections, self, other)
    THEN LET cnx == Connection(self, other)
         IN  [st EXCEPT !.connections[self] = MapSet(@, other, cnx),
                        !.created = Append(@, cnx)]
    ELSE st

\* connect with the test of other.is_connected(self) the wrong way round.
connect_inverted(st, self, other) ==
    IF ~ is_connected(st.connections, self, other)
    THEN LET cnx == Connection(self, other)
             s1 == [st EXCEPT !.connections[self] = MapSet(@, other, cnx),
                              !.created = Append(@, cnx)]
         IN  IF is_connected(s1.connections, other, self) /\ self # other
             THEN [s1 EXCEPT !.connections[other] = MapSet(@, self, Connection(other, self)),
                             !.created = Append(@, Connection(other, self))]
             ELSE s1
    ELSE st

\* connect without the test of self.is_connected(other).
connect_unguarded(st, self, other) ==
    LET cnx == Connection(self, other)
        s1 == [st EXCEPT !.connections[self] = MapSet(@, other, cnx),
                         !.created = Append(@, cnx)]
    IN  IF ~ is_connected(s1.connections, other, self)
        THEN connect(s1, other, self)
        ELSE s1

\* Peer.connect
connect(st, self, other) ==
    IF ~ is_connected(st.connections, self, other)
    THEN LET cnx == Connection(self, other)
             s1 == [Log(st, "info") EXCEPT
                        !.connections[self] = MapSet(@, other, cnx),
                        !.created = Append(@, cnx)]
         IN  IF ~ is_connected(s1.connections, other, self)
             THEN connect(s1, other, self)
             ELSE s1
    ELSE st

\* The loop "for cb in self.disconnect_callbacks: cb(self, other)".
RECURSIVE fire(_, _, _, _)
fire(st, cbs, self, other) ==
    IF cbs = <<>> THEN st
    ELSE fire([st EXCEPT !.fired = Append(@,
                   [cb |-> Head(cbs), self |-> self, other |-> other,
                    linked |-> is_connected(st.connections, self, other)
                               \/ is_connected(st.connections, other, self)])],
              Tail(cbs), self, other)

RECURSIVE disconnect(_, _, _)

\* disconnect without the call other.disconnect(self).
disconnect_one_sided(st, self, other) ==
    IF is_connected(st.connections, self, other)
    THEN fire([st EXCEPT !.connections[self] = MapDel(@, other)],
              disconnect_callbacks[self], self, other)
    ELSE st

\* disconnect with the callback loop outside the test of is_connected.
disconnect_always_fires(st, self, other) ==
    LET s2 == IF is_connected(st.connections, self, other)
              THEN LET s1 == [st EXCEPT !.connections[self] = MapDel(@, other)]
                   IN  IF is_connected(s1.connections, other, self)
                       THEN disconnect(s1, other, self)
                       ELSE s1
              ELSE st
    IN  fire(s2, disconnect_callbacks[self], self, other)

\* disconnect that runs the callbacks before it calls other.disconnect(self).
disconnect_callbacks_first(st, self, other) ==
    IF is_connected(st.connections, self, other)
    THEN LET s1 == fire([st EXCEPT !.connections[self] = MapDel(@, other)],
                        disconnect_callbacks[self], self, other)
         IN  IF is_connected(s1.connections, other, self)
             THEN disconnect(s1, other, self)
             ELSE s1
    ELSE st

\* Peer.disconnect
disconnect(st, self, other) ==
    IF is_connected(st.connections, self, other)
    THEN LET s1 == [Log(st, "warning") EXCEPT !.connections[self] = MapDel(@, other)]
             s2 == IF is_connected(s1.connections, other, self)
                   THEN disconnect(s1, other, self)
                   ELSE s1
         IN  fire(s2, disconnect_callbacks[self], self, other)
    ELSE st

\* send without the assertion on msg.sender.
send_unasserted(st, self, receiver, msg) ==
    IF receiver \notin DOMAIN st.connections[self]
    THEN [st EXCEPT !.error = "Not connected"]
    ELSE ConnectionSend(st, st.connections[self][receiver], msg, FALSE)

\* Peer.send
send(st, self, receiver, msg) ==
    IF msg.sender # self
    THEN [st EXCEPT !.error = "AssertionError"]
    ELSE IF receiver \notin DOMAIN st.connections[self]
         THEN [Log(st, "error") EXCEPT !.error = "Not connected"]
         ELSE ConnectionSend(st, st.connections[self][receiver], msg, FALSE)

\* A loop "for other in targets: self.send(other, msg)"; an exception ends it.
RECURSIVE sendEach(_, _, _, _)
sendEach(st, self, targets, msg) ==
    IF targets = <<>> \/ st.error # "none" THEN st
    ELSE sendEach(send(st, self, Head(targets), msg), self, Tail(targets), msg)

\* The set gossip draws from, without the subtraction of except_set.
gossip_set_all(conns, self, except_set) == DOMAIN conns[self]

\* The set gossip draws from: set(self.connections.keys()) - except_set.
gossip_set(conns, self, except_set) ==
    (DOMAIN conns[self]) \ (IF except_set.isNone THEN {} ELSE except_set.peers)

\* Peer.gossip, with sample the list random.sample returned.
gossip(st, self, msg, sample) == sendEach(st, self, sample, msg)

\* broadcast that leaves the loop one peer early.
broadcast_short(st, self, msg, order) ==
    sendEach(st, self, SubSeq(order, 1, Len(order) - 1), msg)

\* Peer.broadcast, with order the order in which the dict is iterated.
broadcast(st, self, msg, order) == sendEach(st, self, order, msg)

\* The loop of add_service with "self.mh_map[m] = {serv_name}" for the add.
RECURSIVE add_routes_overwriting(_, _, _)
add_routes_overwriting(mh, serv_name, messages) ==
    IF messages = {} THEN mh
    ELSE LET m == CHOOSE x \in messages : TRUE
         IN  add_routes_overwriting(MapSet(mh, m, {serv_name}), serv_name,
                                    messages \ {m})

\* The loop of add_service left after the first message type.
add_routes_first_only(mh, serv_name, messages) ==
    IF messages = {} THEN mh
    ELSE LET m == CHOOSE x \in messages : TRUE
             mh1 == IF m \notin DOMAIN mh THEN MapSet(mh, m, {}) ELSE mh
         IN  [mh1 EXCEPT ![m] = @ \cup {serv_name}]

\* The loop "for m in service.messages" of add_service on the route table mh.
RECURSIVE add_routes(_, _, _)
add_routes(mh, serv_name, messages) ==
    IF messages = {} THEN mh
    ELSE LET m == CHOOSE x \in messages : TRUE
             mh1 == IF m \notin DOMAIN mh THEN MapSet(mh, m, {}) ELSE mh
         IN  add_routes([mh1 EXCEPT ![m] = @ \cup {serv_name}], serv_name,
                        messages \ {m})

\* self.runners[serv_name] = service: a key the dict holds keeps its place.
put_runner(rs, serv_name, service) ==
    IF \E i \in 1..Len(rs) : rs[i].name = serv_name
    THEN [i \in 1..Len(rs) |->
             IF rs[i].name = serv_name
             THEN [name |-> serv_name, service |-> service] ELSE rs[i]]
    ELSE Append(rs, [name |-> serv_name, service |-> service])

\* Peer.add_service, on sv = the handlers, mh_map and runners of the peer.
add_service(sv, service) ==
    LET serv_name == service.name
        s1 == IF service.handler
              THEN [sv EXCEPT !.handlers = MapSet(@, serv_name, service),
                              !.mh_map = add_routes(@, serv_name, service.messages)]
              ELSE sv
    IN  IF service.runner
        THEN [s1 EXCEPT !.runners = put_runner(@, serv_name, service)]
        ELSE s1

\* The loop "for service_id in self.mh_map[type(msg)]" of receive.
RECURSIVE handle_each(_, _, _, _)
handle_each(st, hs, service_ids, msg) ==
    IF service_ids = <<>> THEN st
    ELSE handle_each([st EXCEPT !.handled = Append(@,
                          [service |-> hs[Head(service_ids)], msg |-> msg])],
                     hs, Tail(service_ids), msg)

\* receive that returns when mh_map has no entry for the type.
receive_silent(st, hs, mh, msg, order) ==
    IF msg.type \notin MessageTypes
    THEN [st EXCEPT !.error = "AssertionError"]
    ELSE IF msg.type \notin DOMAIN mh
         THEN st
         ELSE handle_each(st, hs, order, msg)

\* Peer.receive, with hs and mh the handlers and mh_map of the peer and
\* order the order in which the set mh_map[type(msg)] is iterated.
receive(st, hs, mh, msg, order) ==
    IF msg.type \notin MessageTypes
    THEN [st EXCEPT !.error = "AssertionError"]
    ELSE IF msg.type \notin DOMAIN mh
         THEN [Log(Log(st, "info"), "error") EXCEPT !.error = "No handler"]
         ELSE handle_each(Log(st, "info"), hs, order, msg)

\* The orders in which receive may iterate mh_map[type(msg)]: the order of a
\* set of str is not fixed by the program.
RouteOrders(mh, msg) ==
    IF msg.type \in DOMAIN mh THEN Orders(mh[msg.type]) ELSE {<<>>}

\* Peer.store, with names the keys of self.storage; the storage object that
\* takes the message is not part of the model.
store(st, names, storage_name) ==
    IF storage_name \notin names
    THEN [Log(st, "error") EXCEPT !.error = "No storage"]
    ELSE st

\* simpy Store.put as Connection uses it on msg_queue: the item goes last.
store_put(items, msg) == Append(items, msg)

\* Store.get that hands out the newest item.
store_get_newest(items) ==
    [item |-> items[Len(items)], items |-> SubSeq(items, 1, Len(items) - 1)]

\* simpy Store.get on a store that holds items: the oldest item leaves.
store_get(items) == [item |-> Head(items), items |-> Tail(items)]

\* One turn of a loop that catches what receive raises and goes on.
run_catching(items, hs, mh, order) ==
    LET got == store_get(items)
        st == receive(Begin(connections), hs, mh, got.item, order)
    IN  [items |-> got.items, msg |-> got.item, st |-> st, alive |-> TRUE]

\* One turn of the loop of Peer.run on a queue that holds items: the message
\* is taken and passed to receive; what receive raises ends the process.
run(items, hs, mh, order) ==
    LET got == store_get(items)
        st == receive(Begin(connections), hs, mh, got.item, order)
    IN  [items |-> got.items, msg |-> got.item, st |-> st,
         alive |-> st.error = "none"]

\* The services of a peer after add_service was called with each of seq.
RECURSIVE wired(_, _)
wired(sv, seq) ==
    IF seq = <<>> THEN sv ELSE wired(add_service(sv, Head(seq)), Tail(seq))

----------------------------------------------------------------------------
\* Simulation.__init__: the attributes it sets. has_bootstrap_peers tells
\* whether the object has an attribute bootstrap_peers: __init__ sets none.
\*   peers     self.peers: the dict as a list of [type, members] in the order
\*             the keys were inserted
\*   created   the peers the factory has made, each [type, n]
\*   links     the entries of the connections of those peers, <<peer, other>>
\*   started   the start hooks invoked, each [peer, runner], in order
\*   calls     the calls made on the object, with the error each one raised
NewSimulation ==
    [has_bootstrap_peers |-> FALSE, bootstrap_peers |-> <<>>, peers |-> <<>>,
     created |-> <<>>, links |-> {}, started |-> <<>>, calls |-> <<>>]

\* PeerFactory.create_peer(env, peer_type): a new peer of the type, named
\* after it; w.peer is the peer made.
create_peer(w, peer_type) ==
    LET p == [type |-> peer_type,
              n |-> Count([i \in 1..Len(w.sim.created) |-> w.sim.created[i].type],
                          peer_type) + 1]
    IN  [w EXCEPT !.sim.created = Append(@, p), !.peer = p]

\* The runners of a peer, in the order of self.runners.
runners_of(p) ==
    wired([handlers |-> EmptyMap, mh_map |-> EmptyMap, runners |-> <<>>],
          TypeServices[p.type]).runners

\* Peer.start_all_runners
start_all_runners(w, p) ==
    [w EXCEPT !.sim.started =
        @ \o [i \in 1..Len(runners_of(p)) |->
                 [peer |-> p, runner |-> runners_of(p)[i].service]]]

\* Simulation.init_bootstrap_servers: the loop from turn i on.
RECURSIVE init_bootstrap_servers(_, _, _)
init_bootstrap_servers(w, i, num) ==
    IF i >= num THEN w
    ELSE LET w1 == create_peer(w, "bootstrap")
         IN  IF ~ w1.sim.has_bootstrap_peers
             THEN [w1 EXCEPT !.st.error = "AttributeError"]
             ELSE init_bootstrap_servers(
                      start_all_runners(
                          [w1 EXCEPT !.sim.bootstrap_peers = Append(@, w1.peer)],
                          w1.peer),
                      i + 1, num)

\* self.peers[peer_type].append(p), with the list made on first use.
append_peer(peers, peer_type, p) ==
    IF \E k \in 1..Len(peers) : peers[k].type = peer_type
    THEN [k \in 1..Len(peers) |->
             IF peers[k].type = peer_type
             THEN [peers[k] EXCEPT !.members = Append(@, p)] ELSE peers[k]]
    ELSE Append(peers, [type |-> peer_type, members |-> <<p>>])

\* Simulation.add_peers: the loop from turn i on; picks[i] is the draw of
\* random.choice in turn i.
RECURSIVE add_peers(_, _, _, _, _)
add_peers(w, i, peer_num, peer_type, picks) ==
    IF i >= peer_num THEN w
    ELSE LET w1 == create_peer(w, peer_type)
         IN  IF ~ w1.sim.has_bootstrap_peers
             THEN [w1 EXCEPT !.st.error = "AttributeError"]
             ELSE IF w1.sim.bootstrap_peers = <<>>
             THEN [w1 EXCEPT !.st.error = "IndexError"]
             ELSE LET server == w1.sim.bootstrap_peers[picks[i + 1]]
                      w2 == [w1 EXCEPT !.st = bootstrap_connect(@, w1.peer, server)]
                  IN  add_peers([w2 EXCEPT !.sim.peers =
                                     append_peer(@, peer_type, w1.peer)],
                                i + 1, peer_num, peer_type, picks)

\* The loop "for p in self.peers[t]: p.start_all_runners()".
RECURSIVE start_each(_, _)
start_each(w, members) ==
    IF members = <<>> THEN w
    ELSE start_each(start_all_runners(w, Head(members)), Tail(members))

\* Simulation.start_all_peers: the loop over the types from place k on.
RECURSIVE start_all_peers(_, _)
start_all_peers(w, k) ==
    IF k > Len(w.sim.peers) THEN w
    ELSE start_all_peers(start_each(w, w.sim.peers[k].members), k + 1)

\* The peers in the lists of self.peers.
current_peers(sm) ==
    UNION {Range(sm.peers[k].members) : k \in 1..Len(sm.peers)}

\* Simulation.get_graph: the nodes, the edges as sets of two ends, and the
\* error the call raises.
get_graph(sm, include_bootstrap_peers) ==
    IF include_bootstrap_peers /\ ~ sm.has_bootstrap_peers
    THEN [nodes |-> {}, edges |-> {}, error |-> "AttributeError"]
    ELSE LET listed == current_peers(sm) \cup
                           (IF include_bootstrap_peers
                            THEN Range(sm.bootstrap_peers) ELSE {})
             drawn == {l \in sm.links :
                          /\ l[1] \in listed
                          /\ include_bootstrap_peers \/ l[2].type # "bootstrap"}
         IN  [nodes |-> listed \cup {l[2] : l \in drawn},
              edges |-> {{l[1], l[2]} : l \in drawn}, error |-> "none"]

----------------------------------------------------------------------------
\* The record of a call.
Call(op, self, other, msg, f, except_set, st) ==
    [op |-> op, self |-> self, other |-> other, msg |-> msg, f |-> f,
     except_set |-> except_set, pre |-> connections,
     pre_handlers |-> handlers, pre_mh_map |-> mh_map,
     created |-> st.created, fired |-> st.fired, sent |-> st.sent,
     handled |-> st.handled, logs |-> st.logs, error |-> st.error,
     replay |-> <<>>]

NoPeerMaps == [p \in Peers |-> EmptyMap]

\* No call on record.
Idle == Call("idle", "none", "none", NoMessage, 0, None, Begin(connections))

Init ==
    /\ connections = NoPeerMaps
    /\ disconnect_callbacks = [p \in Peers |-> <<>>]
    /\ handlers = NoPeerMaps
    /\ mh_map = NoPeerMaps
    /\ runners = [p \in Peers |-> <<>>]
    /\ msg_queue = [p \in Peers |-> <<>>]
    /\ running = [p \in Peers |-> TRUE]
    /\ storage = [p \in Peers |-> {}]
    /\ sim = NewSimulation
    /\ added = [p \in Peers |-> <<>>]
    /\ put_log = [p \in Peers |-> <<>>]
    /\ got_log = [p \in Peers |-> <<>>]
    /\ last = Idle

\* Calls come one at a time (one logical thread): the record of a call is
\* dropped before the next call is made.
Forget ==
    /\ last.op # "idle"
    /\ last' = Idle
    /\ UNCHANGED <<connections, disconnect_callbacks, dispatchVars>>

\* self.connect(other)
Connect(self, other) ==
    LET st == connect(Begin(connections), self, other)
    IN  /\ last.op = "idle"
        /\ connections' = st.connections
        /\ last' = Call("connect", self, other, NoMessage, 0, None, st)
        /\ UNCHANGED <<disconnect_callbacks, dispatchVars>>

\* self.disconnect(other)
Disconnect(self, other) ==
    LET st == disconnect(Begin(connections), self, other)
    IN  /\ last.op = "idle"
        /\ connections' = st.connections
        /\ last' = Call("disconnect", self, other, NoMessage, 0, None, st)
        /\ UNCHANGED <<disconnect_callbacks, dispatchVars>>

\* self.bootstrap_connect(other)
BootstrapConnect(self, other) ==
    LET st == bootstrap_connect(Begin(connections), self, other)
    IN  /\ last.op = "idle"
        /\ connections' = st.connections
        /\ last' = Call("bootstrap_connect", self, other, NoMessage, 0, None, st)
        /\ UNCHANGED <<disconnect_callbacks, dispatchVars>>

\* self.send(receiver, msg)
Send(self, receiver, msg) ==
    LET st == send(Begin(connections), self, receiver, msg)
    IN  /\ last.op = "idle"
        /\ connections' = st.connections
        /\ last' = Call("send", self, receiver, msg, 0, None, st)
        /\ UNCHANGED <<disconnect_callbacks, dispatchVars>>

\* self.gossip(msg, f, except_set)
Gossip(self, msg, f, except_set) ==
    LET candidates == gossip_set(connections, self, except_set)
    IN  /\ last.op = "idle"
        /\ \E sample \in Sample(candidates, Min(f, Cardinality(candidates))) :
            LET st == gossip(Begin(connections), self, msg, sample)
            IN  /\ connections' = st.connections
                /\ last' = Call("gossip", self, "none", msg, f, except_set, st)
                /\ UNCHANGED <<disconnect_callbacks, dispatchVars>>

\* self.broadcast(msg); the dict is iterated in the order of insertion, and
\* the model admits every order.
Broadcast(self, msg) ==
    /\ last.op = "idle"
    /\ \E order \in Orders(DOMAIN connections[self]) :
        LET st == broadcast(Begin(connections), self, msg, order)
        IN  /\ connections' = st.connections
            /\ last' = Call("broadcast", self, "none", msg, 0, None, st)
            /\ UNCHANGED <<disconnect_callbacks, dispatchVars>>

\* The number of callbacks registered on the peers of S.
RECURSIVE Registered(_)
Registered(S) ==
    IF S = {} THEN 0
    ELSE LET p == CHOOSE q \in S : TRUE
         IN  Len(disconnect_callbacks[p]) + Registered(S \ {p})

\* self.disconnect_callbacks.append(cb), as a service of the peer does.
RegisterDisconnectCallback(self, cb) ==
    /\ last.op = "idle"
    /\ Registered(Peers) < MaxCallbacks
    /\ disconnect_callbacks' = [disconnect_callbacks EXCEPT ![self] = Append(@, cb)]
    /\ last' = Call("register", self, "none", NoMessage, 0, None, Begin(connections))
    /\ UNCHANGED <<connections, dispatchVars>>

\* The number of add_service calls made on the peers of S.
RECURSIVE Added(_)
Added(S) ==
    IF S = {} THEN 0
    ELSE LET p == CHOOSE q \in S : TRUE
         IN  Len(added[p]) + Added(S \ {p})

\* self.add_service(service)
AddService(self, service) ==
    LET sv == add_service([handlers |-> handlers[self], mh_map |-> mh_map[self],
                           runners |-> runners[self]], service)
    IN  /\ last.op = "idle"
        /\ Added(Peers) < MaxServices
        /\ handlers' = [handlers EXCEPT ![self] = sv.handlers]
        /\ mh_map' = [mh_map EXCEPT ![self] = sv.mh_map]
        /\ runners' = [runners EXCEPT ![self] = sv.runners]
        /\ added' = [added EXCEPT ![self] = Append(@, service)]
        /\ last' = Call("add_service", self, service.id, NoMessage, 0, None,
                        Begin(connections))
        /\ UNCHANGED <<connections, disconnect_callbacks, queueVars, storage, sim>>

\* self.receive(msg), as Peer.run calls it for a message it took from
\* msg_queue.
Receive(self, msg) ==
    /\ last.op = "idle"
    /\ \E order \in RouteOrders(mh_map[self], msg) :
        LET st == receive(Begin(connections), handlers[self], mh_map[self], msg, order)
        IN  /\ last' = Call("receive", self, "none", msg, 0, None, st)
            /\ UNCHANGED <<connections, disconnect_callbacks, dispatchVars>>

\* The number of messages delivered to the peers of S.
RECURSIVE Delivered(_)
Delivered(S) ==
    IF S = {} THEN 0
    ELSE LET p == CHOOSE q \in S : TRUE
         IN  Len(put_log[p]) + Delivered(S \ {p})

\* A Connection delivers msg: self.msg_queue.put(msg).
Deliver(self, msg) ==
    /\ last.op = "idle"
    /\ Delivered(Peers) < MaxDeliveries
    /\ msg_queue' = [msg_queue EXCEPT ![self] = store_put(@, msg)]
    /\ put_log' = [put_log EXCEPT ![self] = Append(@, msg)]
    /\ UNCHANGED <<connections, disconnect_callbacks, serviceVars, running,
                   storage, got_log, sim, last>>

\* One turn of the process self.run(): it waits while msg_queue is empty.
Run(self) ==
    /\ last.op = "idle"
    /\ running[self]
    /\ msg_queue[self] # <<>>
    /\ \E order \in RouteOrders(mh_map[self], Head(msg_queue[self])) :
        LET r == run(msg_queue[self], handlers[self], mh_map[self], order)
        IN  /\ msg_queue' = [msg_queue EXCEPT ![self] = r.items]
            /\ running' = [running EXCEPT ![self] = r.alive]
            /\ got_log' = [got_log EXCEPT ![self] =
                               Append(@, [msg |-> r.msg, error |-> r.st.error])]
            /\ last' = Call("run", self, "none", r.msg, 0, None, r.st)
            /\ UNCHANGED <<connections, disconnect_callbacks, serviceVars,
                           storage, put_log, sim>>

\* self.receive(msg) in two runs of the program that made the same
\* add_service calls: each run iterates the set mh_map[type(msg)] in the
\* order its interpreter gives the set (the hashes of str differ from one
\* process to the next). replay is what the second run invoked.
ReceiveInTwoRuns(self, msg) ==
    /\ last.op = "idle"
    /\ \E order \in RouteOrders(mh_map[self], msg),
          again \in RouteOrders(mh_map[self], msg) :
        LET st == receive(Begin(connections), handlers[self], mh_map[self], msg, order)
            st2 == receive(Begin(connections), handlers[self], mh_map[self], msg, again)
        IN  /\ last' = [Call("receive_twice", self, "none", msg, 0, None, st)
                           EXCEPT !.replay = st2.handled]
            /\ UNCHANGED <<connections, disconnect_callbacks, dispatchVars>>

\* self.add_storage(storage_name, storage)
AddStorage(self, storage_name) ==
    /\ last.op = "idle"
    /\ storage' = [storage EXCEPT ![self] = @ \cup {storage_name}]
    /\ last' = Call("add_storage", self, storage_name, NoMessage, 0, None,
                    Begin(connections))
    /\ UNCHANGED <<connections, disconnect_callbacks, serviceVars, queueVars, sim>>

\* self.store(storage_name, msg_id, msg)
Store(self, storage_name, msg) ==
    LET st == store(Begin(connections), storage[self], storage_name)
    IN  /\ last.op = "idle"
        /\ last' = Call("store", self, storage_name, msg, 0, None, st)
        /\ UNCHANGED <<connections, disconnect_callbacks, dispatchVars>>

\* The calls that make and break connections and that fan messages out.
Next ==
    \/ \E self \in Peers, other \in Peers : Connect(self, other)
    \/ \E self \in Peers, other \in Peers : Disconnect(self, other)
    \/ \E self \in Peers, other \in Peers : BootstrapConnect(self, other)
    \/ \E self \in Peers, receiver \in Peers, msg \in Outgoing : Send(self, receiver, msg)
    \/ \E self \in Peers, msg \in Outgoing, f \in 0..MaxFanout, e \in ExceptSets :
           Gossip(self, msg, f, e)
    \/ \E self \in Peers, msg \in Outgoing : Broadcast(self, msg)
    \/ Forget

Spec == Init /\ [][Next]_vars

\* Connections made and broken while services register disconnect callbacks.
NextCallbacks ==
    \/ \E self \in Peers, other \in Peers : Connect(self, other)
    \/ \E self \in Peers, other \in Peers : Disconnect(self, other)
    \/ \E self \in Peers, cb \in Callbacks : RegisterDisconnectCallback(self, cb)
    \/ Forget

SpecCallbacks == Init /\ [][NextCallbacks]_vars

\* Services registered and messages dispatched to them.
NextDispatch ==
    \/ \E self \in Peers, service \in Services : AddService(self, service)
    \/ \E self \in Peers, msg \in Messages : Receive(self, msg)
    \/ \E self \in Peers, msg \in Messages : ReceiveInTwoRuns(self, msg)
    \/ Forget

SpecDispatch == Init /\ [][NextDispatch]_vars

\* The calls that can end in a fatal condition, on peers that have no
\* connection and no service yet.
NextFatal ==
    \/ \E self \in Peers, receiver \in Peers, msg \in Outgoing : Send(self, receiver, msg)
    \/ \E self \in Peers, msg \in Messages : Receive(self, msg)
    \/ \E self \in Peers, name \in StorageNames : AddStorage(self, name)
    \/ \E self \in Peers, name \in StorageNames, msg \in Outgoing :
           Store(self, name, msg)
    \/ Forget

SpecFatal == Init /\ [][NextFatal]_vars

\* A call on the Simulation object, noted in sim.calls with its error.
Noted(w, op, num, peer_type) ==
    [w.sim EXCEPT !.calls = Append(@, [op |-> op, num |-> num, type |-> peer_type,
                                       error |-> w.st.error])]

\* sim.init_bootstrap_servers(num)
InitBootstrapServers(num) ==
    LET w == init_bootstrap_servers(
                 [sim |-> sim, st |-> Begin(connections), peer |-> "none"], 0, num)
    IN  /\ last.op = "idle"
        /\ Len(sim.calls) < MaxCalls
        /\ sim' = Noted(w, "init_bootstrap_servers", num, "bootstrap")
        /\ last' = Call("init_bootstrap_servers", "none", "bootstrap", NoMessage,
                        num, None, w.st)
        /\ UNCHANGED <<connections, disconnect_callbacks, serviceVars, queueVars,
                       storage>>

\* sim.add_peers(peer_num, peer_type)
AddPeers(peer_num, peer_type) ==
    /\ last.op = "idle"
    /\ Len(sim.calls) < MaxCalls
    /\ \E picks \in [1..peer_num -> 1..(IF sim.bootstrap_peers = <<>> THEN 1
                                        ELSE Len(sim.bootstrap_peers))] :
        LET w == add_peers([sim |-> sim, st |-> Begin(connections), peer |-> "none"],
                           0, peer_num, peer_type, picks)
        IN  /\ sim' = Noted(w, "add_peers", peer_num, peer_type)
            /\ last' = Call("add_peers", "none", peer_type, NoMessage, peer_num,
                            None, w.st)
            /\ UNCHANGED <<connections, disconnect_callbacks, serviceVars,
                           queueVars, storage>>

\* sim.start_all_peers()
StartAllPeers ==
    LET w == start_all_peers(
                 [sim |-> sim, st |-> Begin(connections), peer |-> "none"], 1)
    IN  /\ last.op = "idle"
        /\ Len(sim.calls) < MaxCalls
        /\ sim' = Noted(w, "start_all_peers", 0, "none")
        /\ last' = Call("start_all_peers", "none", "none", NoMessage, 0, None, w.st)
        /\ UNCHANGED <<connections, disconnect_callbacks, serviceVars, queueVars,
                       storage>>

\* The calls of the population layer.
NextSimulation ==
    \/ \E num \in 0..MaxBatch : InitBootstrapServers(num)
    \/ \E num \in 0..MaxBatch, peer_type \in PeerTypes : AddPeers(num, peer_type)
    \/ StartAllPeers
    \/ Forget

SpecSimulation == Init /\ [][NextSimulation]_vars

\* The services a peer factory wires into the peers it creates.
Setups == {<<>>, <<Gossip1>>, <<Connector1>>, <<Gossip1, Connector1>>}

\* Peers created with their services wired, before any message arrives.
InitLoop ==
    /\ connections = NoPeerMaps
    /\ disconnect_callbacks = [p \in Peers |-> <<>>]
    /\ \E seq \in Setups :
        LET sv == wired([handlers |-> EmptyMap, mh_map |-> EmptyMap,
                         runners |-> <<>>], seq)
        IN  /\ handlers = [p \in Peers |-> sv.handlers]
            /\ mh_map = [p \in Peers |-> sv.mh_map]
            /\ runners = [p \in Peers |-> sv.runners]
            /\ added = [p \in Peers |-> seq]
    /\ msg_queue = [p \in Peers |-> <<>>]
    /\ running = [p \in Peers |-> TRUE]
    /\ storage = [p \in Peers |-> {}]
    /\ sim = NewSimulation
    /\ put_log = [p \in Peers |-> <<>>]
    /\ got_log = [p \in Peers |-> <<>>]
    /\ last = Idle

\* Messages delivered to the peers and dispatched by their run loops.
NextLoop ==
    \/ \E self \in Peers, msg \in Messages : Deliver(self, msg)
    \/ \E self \in Peers : Run(self)
    \/ Forget

SpecLoop == InitLoop /\ [][NextLoop]_vars

----------------------------------------------------------------------------
\* The connection set of self before the call on record.
PreKeys == DOMAIN last.pre[last.self]

\* The call on record was made between two peers that listed each other.
WasConnected ==
    \/ is_connected(last.pre, last.self, last.other)
    \/ is_connected(last.pre, last.other, last.self)

\* The peers the call on record handed a message for, in order.
Receivers == [i \in 1..Len(last.sent) |-> last.sent[i].cnx.receiver]

\* C1: connection symmetry. Between calls, B is a key of A.connections if and
\* only if A is a key of B.connections, for all peers A and B.
ConnectionSymmetry ==
    \A a \in Peers, b \in Peers :
        (b \in DOMAIN connections[a]) <=> (a \in DOMAIN connections[b])

\* A disconnect has removed one link of a peer that keeps another one.
ConnectionSymmetryWitness ==
    /\ last.op = "disconnect"
    /\ last.self # last.other
    /\ connections # last.pre
    /\ connections[last.self] # EmptyMap

\* C2: after A.connect(B) returns, A.is_connected(B) and B.is_connected(A).
ConnectConnectsBoth ==
    last.op = "connect" =>
        /\ is_connected(connections, last.self, last.other)
        /\ is_connected(connections, last.other, last.self)

\* A connect between two distinct peers that were not connected.
ConnectConnectsBothWitness ==
    /\ last.op = "connect"
    /\ last.self # last.other
    /\ ~ WasConnected
    /\ Len(last.created) = 2

\* C3: connect is idempotent. A connect between two peers that are connected
\* already, whichever of them made the first call, constructs no Connection
\* and leaves the connections of every peer as they were, with the one entry
\* each side has for the other.
ConnectIdempotent ==
    (last.op = "connect" /\ WasConnected) =>
        /\ last.created = <<>>
        /\ connections = last.pre
        /\ connections[last.self][last.other] = Connection(last.self, last.other)
        /\ connections[last.other][last.self] = Connection(last.other, last.self)

\* A second connect between two distinct connected peers.
ConnectIdempotentWitness ==
    /\ last.op = "connect"
    /\ last.self # last.other
    /\ is_connected(last.pre, last.self, last.other)
    /\ is_connected(last.pre, last.other, last.self)

\* The callbacks the call on record fired on behalf of peer p, in order.
FiredBy(p) == SelectSeq(last.fired, LAMBDA e : e.self = p)

\* C4: after A.disconnect(B) between connected peers neither lists the other,
\* and each callback registered on A was invoked once, with (A, B).
DisconnectBothAndCallbacks ==
    (last.op = "disconnect" /\ is_connected(last.pre, last.self, last.other)) =>
        /\ ~ is_connected(connections, last.self, last.other)
        /\ ~ is_connected(connections, last.other, last.self)
        /\ Len(FiredBy(last.self)) = Len(disconnect_callbacks[last.self])
        /\ \A i \in 1..Len(FiredBy(last.self)) :
               /\ FiredBy(last.self)[i].cb = disconnect_callbacks[last.self][i]
               /\ FiredBy(last.self)[i].other = last.other

\* A disconnect between two connected peers, by one that has two callbacks.
DisconnectBothAndCallbacksWitness ==
    /\ last.op = "disconnect"
    /\ last.self # last.other
    /\ is_connected(last.pre, last.self, last.other)
    /\ Len(disconnect_callbacks[last.self]) = 2

\* C5: A.disconnect(B) with B not in A.connections invokes no callback and
\* leaves the connections of every peer as they were.
DisconnectUnconnectedNoop ==
    (last.op = "disconnect" /\ ~ is_connected(last.pre, last.self, last.other)) =>
        /\ last.fired = <<>>
        /\ connections = last.pre

\* A disconnect between unconnected peers that both have a callback.
DisconnectUnconnectedNoopWitness ==
    /\ last.op = "disconnect"
    /\ last.self # last.other
    /\ ~ is_connected(last.pre, last.self, last.other)
    /\ disconnect_callbacks[last.self] # <<>>
    /\ disconnect_callbacks[last.other] # <<>>

\* C8: gossip(msg, f, except) with msg.sender the caller hands msg to the
\* Connections of min(f, |connections - except|) distinct peers, each a key
\* of connections and none in except.
GossipFanout ==
    (last.op = "gossip" /\ last.msg.sender = last.self) =>
        LET candidates == PreKeys \ last.except_set.peers
        IN  /\ last.error = "none"
            /\ Len(last.sent) = Min(last.f, Cardinality(candidates))
            /\ \A i \in 1..Len(last.sent), j \in 1..Len(last.sent) :
                   i # j => Receivers[i] # Receivers[j]
            /\ \A i \in 1..Len(last.sent) :
                   /\ Receivers[i] \in PreKeys
                   /\ Receivers[i] \notin last.except_set.peers
                   /\ last.sent[i].cnx = last.pre[last.self][Receivers[i]]
                   /\ last.sent[i].msg = last.msg

\* A gossip with fewer messages than candidates, and a connected peer excepted.
GossipFanoutWitness ==
    /\ last.op = "gossip"
    /\ last.msg.sender = last.self
    /\ Len(last.sent) = 1
    /\ Cardinality(PreKeys \ last.except_set.peers) = 2
    /\ PreKeys \cap last.except_set.peers # {}

\* C9: broadcast(msg) with msg.sender the caller hands msg once to the
\* Connection of each peer in connections, and to no other Connection.
BroadcastComplete ==
    (last.op = "broadcast" /\ last.msg.sender = last.self) =>
        /\ last.error = "none"
        /\ \A b \in PreKeys :
               Count(last.sent, [cnx |-> last.pre[last.self][b],
                                 msg |-> last.msg, connect |-> FALSE]) = 1
        /\ \A i \in 1..Len(last.sent) : Receivers[i] \in PreKeys
        /\ Len(last.sent) = Cardinality(PreKeys)

\* A broadcast by a peer with three connections.
BroadcastCompleteWitness ==
    /\ last.op = "broadcast"
    /\ last.msg.sender = last.self
    /\ Cardinality(PreKeys) = 3
    /\ Len(last.sent) = 3

\* C10: send(receiver, msg) fails when msg.sender is not the caller and when
\* receiver is not in connections, handing over nothing and leaving the
\* connections as they were; otherwise it hands msg once to
\* connections[receiver].
SendContract ==
    last.op = "send" =>
        IF last.msg.sender # last.self \/ last.other \notin PreKeys
        THEN /\ last.error # "none"
             /\ last.sent = <<>>
             /\ connections = last.pre
        ELSE /\ last.error = "none"
             /\ last.sent = << [cnx |-> last.pre[last.self][last.other],
                                msg |-> last.msg, connect |-> FALSE] >>

\* A send that fails although the receiver is connected: the sender is another.
SendContractWitness ==
    /\ last.op = "send"
    /\ last.msg.sender # last.self
    /\ last.other \in PreKeys
    /\ last.error = "AssertionError"

\* The add_service calls made on the receiving peer that gave a Handler
\* declaring the type of the received message.
Declaring ==
    {i \in 1..Len(added[last.self]) :
        /\ added[last.self][i].handler
        /\ last.msg.type \in added[last.self][i].messages}

\* No later add_service call on the peer gave a Handler of the same type name.
Current(i) ==
    \A j \in (i + 1)..Len(added[last.self]) :
        ~ (added[last.self][j].handler
           /\ added[last.self][j].name = added[last.self][i].name
           /\ added[last.self][j] # added[last.self][i])

\* The number of handle_message calls the receive on record made on service s
\* with the received message.
Invocations(s) == Count(last.handled, [service |-> s, msg |-> last.msg])

\* C6 as stated: whatever add_service calls followed, receiving an instance of
\* T invokes handle_message of every Handler registered for T once with it.
DispatchRoutingAnyLater ==
    last.op = "receive" =>
        \A i \in Declaring : Invocations(added[last.self][i]) = 1

\* C6: receiving an instance of T invokes once, with that instance,
\* handle_message of every Handler that was registered for T and that no later
\* add_service call replaced under its type name.
DispatchRouting ==
    last.op = "receive" =>
        /\ \A i \in Declaring :
               Current(i) => Invocations(added[last.self][i]) = 1
        /\ \A k \in 1..Len(last.handled) : last.handled[k].msg = last.msg

\* A receive that two Handlers of different type names take, registered after
\* one another.
DispatchRoutingWitness ==
    /\ last.op = "receive"
    /\ Cardinality(Declaring) = 2
    /\ \A i \in Declaring : Current(i)
    /\ Len(last.handled) = 2

\* C7: receiving a message of a BaseMessage type that mh_map has no entry for
\* raises the "no handler" error and invokes no handler.
UnhandledType ==
    (/\ last.op = "receive"
     /\ last.msg.type \in MessageTypes
     /\ last.msg.type \notin DOMAIN last.pre_mh_map[last.self]) =>
        /\ last.error = "No handler"
        /\ last.handled = <<>>

\* A Hello received by a peer whose only Handler takes GossipMessage.
UnhandledTypeWitness ==
    /\ last.op = "receive"
    /\ last.msg.type = "Hello"
    /\ DOMAIN last.pre_mh_map[last.self] = {"GossipMessage"}
    /\ last.error = "No handler"

\* The messages the run loop of p has passed to receive, in order.
Dispatched(p) == [i \in 1..Len(got_log[p]) |-> got_log[p][i].msg]

\* C11: FIFO dispatch. For every peer the messages passed to receive,
\* followed by those still in msg_queue, are the messages put into the queue
\* in the order they were put: none is dispatched twice, skipped or out of
\* turn, and none leaves the queue other than through the run loop.
FifoDispatch ==
    \A p \in Peers : put_log[p] = Dispatched(p) \o msg_queue[p]

\* A peer has dispatched two different messages, in the order they came.
FifoDispatchWitness ==
    \E p \in Peers :
        /\ Len(got_log[p]) = 2
        /\ got_log[p][1].msg # got_log[p][2].msg
        /\ msg_queue[p] = <<>>

\* C14: what receive raises ends the run loop: the message that made receive
\* raise is the last the peer dispatches, and its loop is dead from then on.
FatalEndsLoop ==
    \A p \in Peers :
        /\ \A i \in 1..Len(got_log[p]) - 1 : got_log[p][i].error = "none"
        /\ running[p] <=>
               (got_log[p] = <<>> \/ got_log[p][Len(got_log[p])].error = "none")

\* A peer whose loop died on a message, with a later message left in its queue.
FatalEndsLoopWitness ==
    \E p \in Peers :
        /\ ~ running[p]
        /\ got_log[p] # <<>>
        /\ got_log[p][Len(got_log[p])].error = "No handler"
        /\ msg_queue[p] # <<>>
        /\ last.op = "idle"

\* C13: every call that ends in a fatal condition (receive of an unrecognized
\* type or of a type without handler, send with another sender or to a peer
\* not connected, store into an unregistered name) has written an error
\* record on the logger of the peer before the error leaves the call.
FatalIsLogged ==
    last.error # "none" => \E i \in 1..Len(last.logs) : last.logs[i] = "error"

\* C15: mh_map consistency. On every peer each service name in any mh_map[m]
\* is a key of handlers, and the type name of each Handler given to
\* add_service is in mh_map[m] for every m the Handler declares.
RouteTableConsistent ==
    \A p \in Peers :
        /\ \A m \in DOMAIN mh_map[p] : mh_map[p][m] \subseteq DOMAIN handlers[p]
        /\ \A i \in 1..Len(added[p]) :
               added[p][i].handler =>
                   \A m \in added[p][i].messages :
                       /\ m \in DOMAIN mh_map[p]
                       /\ added[p][i].name \in mh_map[p][m]

\* A peer with three add_service calls: a Handler replaced by another of its
\* class and a Handler of two message types.
RouteTableConsistentWitness ==
    \E p \in Peers :
        /\ Len(added[p]) = 3
        /\ {Gossip1, Gossip2, Connector1} \subseteq Range(added[p])
        /\ DOMAIN mh_map[p] = {"Hello", "GossipMessage"}

\* C16: bootstrap_connect(other) leaves the connections of every peer as they
\* were and hands one Hello whose sender is the caller to a new Connection
\* from the caller to other, with the connect flag set.
BootstrapConnectOneSided ==
    last.op = "bootstrap_connect" =>
        /\ connections = last.pre
        /\ last.created = << Connection(last.self, last.other) >>
        /\ last.sent = << [cnx |-> Connection(last.self, last.other),
                           msg |-> [type |-> "Hello", sender |-> last.self],
                           connect |-> TRUE] >>
        /\ last.error = "none"

\* A bootstrap_connect between two distinct peers that are not connected.
BootstrapConnectOneSidedWitness ==
    /\ last.op = "bootstrap_connect"
    /\ last.self # last.other
    /\ ~ is_connected(connections, last.self, last.other)
    /\ ~ is_connected(connections, last.other, last.self)
    /\ Len(last.sent) = 1

\* The callback invocations A.disconnect(B) owes to peer p with partner q.
Owed(p, q) ==
    [i \in 1..Len(disconnect_callbacks[p]) |->
        [cb |-> disconnect_callbacks[p][i], self |-> p, other |-> q,
         linked |-> FALSE]]

\* C19: A.disconnect(B) between connected peers invokes each callback of B
\* once with (B, A), then each callback of A once with (A, B), and every one
\* of them runs when neither peer lists the other.
DisconnectCallbackOrder ==
    (last.op = "disconnect" /\ is_connected(last.pre, last.self, last.other)) =>
        last.fired = IF last.self = last.other
                     THEN Owed(last.self, last.self)
                     ELSE Owed(last.other, last.self) \o Owed(last.self, last.other)

\* A disconnect between two connected peers that have a callback each.
DisconnectCallbackOrderWitness ==
    /\ last.op = "disconnect"
    /\ last.self # last.other
    /\ is_connected(last.pre, last.self, last.other)
    /\ disconnect_callbacks[last.self] # <<>>
    /\ disconnect_callbacks[last.other] # <<>>
    /\ Len(last.fired) = 2

\* The call on record is a gossip or broadcast of a message of another sender.
ForeignFanOut ==
    /\ last.op \in {"gossip", "broadcast"}
    /\ last.msg.sender # last.self

\* The number of peers the fan-out call on record set out to send to.
Targets ==
    IF last.op = "broadcast" THEN Cardinality(PreKeys)
    ELSE Min(last.f, Cardinality(PreKeys \ last.except_set.peers))

\* C20 as stated: gossip and broadcast of a message of another sender fail,
\* whatever the connections, the fanout and the except set.
ForeignFanOutFails ==
    ForeignFanOut => (last.error # "none" /\ last.sent = <<>>)

\* C20: gossip and broadcast of a message of another sender hand it to no
\* Connection; they fail with the assertion of send when there is a peer to
\* send to and return normally when there is none.
ForeignFanOutSendsNothing ==
    ForeignFanOut =>
        /\ last.sent = <<>>
        /\ connections = last.pre
        /\ Targets >= 1 => last.error = "AssertionError"
        /\ Targets = 0 => last.error = "none"

\* A gossip of a message of another sender to one of two connected peers.
ForeignFanOutSendsNothingWitness ==
    /\ last.op = "gossip"
    /\ last.msg.sender # last.self
    /\ last.msg.sender \in PreKeys
    /\ Cardinality(PreKeys) = 2
    /\ Targets = 1
    /\ last.error = "AssertionError"

\* C18: deterministic dispatch order. With several Handlers registered for
\* the type of a message, receive invokes each once, and two runs that made
\* the same add_service calls and receive the same message invoke them in the
\* same order.
DeterministicDispatchOrder ==
    last.op = "receive_twice" =>
        /\ \A n \in DOMAIN last.pre_handlers[last.self] :
               (last.msg.type \in DOMAIN last.pre_mh_map[last.self]
                /\ n \in last.pre_mh_map[last.self][last.msg.type]) =>
                   Invocations(last.pre_handlers[last.self][n]) = 1
        /\ last.replay = last.handled

\* The calls made on the Simulation so far, without their errors.
CallsMade ==
    [i \in 1..Len(sim.calls) |->
        [op |-> sim.calls[i].op, num |-> sim.calls[i].num, type |-> sim.calls[i].type]]

\* The calls of the scenario of C12.
Scenario ==
    << [op |-> "init_bootstrap_servers", num |-> 1, type |-> "bootstrap"],
       [op |-> "add_peers", num |-> 3, type |-> "basic"],
       [op |-> "start_all_peers", num |-> 0, type |-> "none"] >>

\* No call made on the Simulation so far has raised.
NoCallRaised == \A i \in 1..Len(sim.calls) : sim.calls[i].error = "none"

\* C12: the scenario init_bootstrap_servers(1), add_peers(3, 'basic'),
\* start_all_peers runs through, and after it the graph without bootstrap
\* peers has 3 nodes and no edge, the graph with them 3 edges, each with the
\* bootstrap peer at one end.
ScenarioGraph ==
    (CallsMade # <<>> /\ CallsMade = SubSeq(Scenario, 1, Len(CallsMade))) =>
        /\ NoCallRaised
        /\ CallsMade = Scenario =>
               /\ Cardinality(get_graph(sim, FALSE).nodes) = 3
               /\ get_graph(sim, FALSE).edges = {}
               /\ get_graph(sim, TRUE).error = "none"
               /\ Cardinality(get_graph(sim, TRUE).edges) = 3
               /\ \A e \in get_graph(sim, TRUE).edges :
                      \E b \in e : b.type = "bootstrap"

\* The calls made are init_bootstrap_servers, then add_peers calls, then one
\* start_all_peers.
StartedUp ==
    /\ Len(sim.calls) >= 2
    /\ sim.calls[1].op = "init_bootstrap_servers"
    /\ sim.calls[Len(sim.calls)].op = "start_all_peers"
    /\ \A i \in 2..Len(sim.calls) - 1 : sim.calls[i].op = "add_peers"

\* The start hooks invoked on peer p, in order.
StartedOn(p) ==
    SelectSeq(sim.started, LAMBDA e : e.peer = p)

\* C17: after init_bootstrap_servers(n), add_peers calls and one
\* start_all_peers, no call has raised, every peer asked for exists, and the
\* start hook of every runner of every peer made has been invoked once, in
\* the order of registration.
RunnersStartedOnce ==
    StartedUp =>
        /\ NoCallRaised
        /\ Len(sim.bootstrap_peers) = sim.calls[1].num
        /\ \A i \in 1..Len(sim.created) :
               StartedOn(sim.created[i]) =
                   [k \in 1..Len(runners_of(sim.created[i])) |->
                       [peer |-> sim.created[i],
                        runner |-> runners_of(sim.created[i])[k].service]]

====
